---- MODULE Spec2Model ----
(***************************************************************************)
(* A model of pycalc (src/final_task/pycalc/core.py): the command-line     *)
(* calculator's pipeline  split_comparison -> get_tokens ->                *)
(* convert_infix_to_postfix -> calculate, driven by main.                  *)
(*                                                                         *)
(* Strings are TLA+ strings, read character by character with SubSeq.      *)
(* Python's `is` on '' and on small integers is modelled as equality       *)
(* (interpreters keep these objects unique).  `is` between a token and a   *)
(* one-character literal is equality for a token cut out of a longer       *)
(* string, which is the interpreter's shared one-character string; a       *)
(* token that is the whole normalised expression is the object that        *)
(* str.lower() returned, which CPython does not share, and for it `is`     *)
(* may give either answer: the variable interned holds the answer.         *)
(* A float is modelled as an exact rational n/d; a value that is not an    *)
(* exact rational of magnitude at most MaxExact (an irrational logarithm,  *)
(* a huge power) is kept as the text of the call that produced it.         *)
(***************************************************************************)
EXTENDS Integers, Sequences, FiniteSets, TLC

VARIABLES expression, pc, expressions, comparator, side, input_queue,
          output_queue, operator_stack, postfix, stack, result,
          calculated_expressions, printed, interned

vars == <<expression, pc, expressions, comparator, side, input_queue,
          output_queue, operator_stack, postfix, stack, result,
          calculated_expressions, printed, interned>>

(***************************************************************************)
(* Bounds of the model.                                                    *)
(***************************************************************************)
\* longest free sequence of lexemes given to main
MaxLen == 3
\* most binary operators in a parenthesis-free arithmetic input
MaxOps == 2
\* largest number literal of the one-operator inputs
MaxNum == 3
\* longest string of brackets given to main
MaxBr == 5
\* largest numerator or denominator kept as an exact rational
MaxExact == 30000

(***************************************************************************)
(* Characters and strings.                                                 *)
(***************************************************************************)
Ch(s, i) == IF i >= 1 /\ i <= Len(s) THEN SubSeq(s, i, i) ELSE ""

Digits == {"0", "1", "2", "3", "4", "5", "6", "7", "8", "9"}

LowerLetters == {"a", "b", "c", "d", "e", "f", "g", "h", "i", "j", "k", "l", "m",
                 "n", "o", "p", "q", "r", "s", "t", "u", "v", "w", "x", "y", "z"}

UpperToLower == [A |-> "a", B |-> "b", C |-> "c", D |-> "d", E |-> "e", F |-> "f",
                 G |-> "g", H |-> "h", I |-> "i", J |-> "j", K |-> "k", L |-> "l",
                 M |-> "m", N |-> "n", O |-> "o", P |-> "p", Q |-> "q", R |-> "r",
                 S |-> "s", T |-> "t", U |-> "u", V |-> "v", W |-> "w", X |-> "x",
                 Y |-> "y", Z |-> "z"]

\* the regular expression classes \d, \s and \w; any other character is \W
IsDigit(c) == c \in Digits
IsSpace(c) == c \in {" ", "\t", "\n"}
IsWord(c) == c \in Digits \cup LowerLetters \cup DOMAIN UpperToLower \cup {"_"}

RECURSIVE MapChars(_, _)
MapChars(s, i) ==
    IF i > Len(s) THEN ""
    ELSE LET c == Ch(s, i)
         IN (IF c \in DOMAIN UpperToLower THEN UpperToLower[c] ELSE c)
                \o MapChars(s, i + 1)

\* str.lower()
Lower(s) == MapChars(s, 1)

RECURSIVE DropChars(_, _, _)
DropChars(s, drop, i) ==
    IF i > Len(s) THEN ""
    ELSE (IF Ch(s, i) \in drop THEN "" ELSE Ch(s, i)) \o DropChars(s, drop, i + 1)

\* str.strip()
Strip(s) ==
    LET keep == {i \in 1..Len(s) : ~IsSpace(Ch(s, i))}
    IN IF keep = {} THEN ""
       ELSE LET lo == CHOOSE i \in keep : \A j \in keep : i <= j
                hi == CHOOSE i \in keep : \A j \in keep : i >= j
            IN SubSeq(s, lo, hi)

\* the first position at or after i that holds no whitespace (Len(s)+1 if none)
RECURSIVE SkipSpaces(_, _)
SkipSpaces(s, i) ==
    IF i <= Len(s) /\ IsSpace(Ch(s, i)) THEN SkipSpaces(s, i + 1) ELSE i

(***************************************************************************)
(* The exceptions of the program, by class name.                           *)
(***************************************************************************)
OperandsError == "OperandsError"
OperatorsError == "OperatorsError"
WhitespaceError == "WhitespaceError"
UnbalancedBracketsError == "UnbalancedBracketsError"
UnexpectedCommaError == "UnexpectedCommaError"
EmptyExpressionError == "EmptyExpressionError"
ParseError == "ParseError"
UnknownTokensError == "UnknownTokensError"
\* exceptions of the Python runtime that the program's code lets happen
IndexError == "IndexError"
ZeroDivisionError == "ZeroDivisionError"
ValueError == "ValueError"
OverflowError == "OverflowError"
TypeError == "TypeError"
NoError == "ok"

(***************************************************************************)
(* Validator.                                                              *)
(***************************************************************************)
\* the regular expression of check_whitespace matched at position i
WhitespaceMatchAt(s, i) ==
    LET c == Ch(s, i)
        afterDot == IF Ch(s, i + 1) = "." THEN i + 2 ELSE i + 1
    IN \/ /\ c \in {">", "<", "=", "!"}
          /\ IsSpace(Ch(s, i + 1))
          /\ Ch(s, SkipSpaces(s, i + 1)) = "="
       \/ /\ c = "*"
          /\ IsSpace(Ch(s, i + 1))
          /\ Ch(s, SkipSpaces(s, i + 1)) = "*"
       \/ /\ IsDigit(c)
          /\ IsSpace(Ch(s, afterDot))
          /\ LET k == SkipSpaces(s, afterDot)
             IN \/ IsDigit(Ch(s, k))
                \/ Ch(s, k) = "." /\ IsDigit(Ch(s, k + 1))
       \/ /\ c = "/"
          /\ IsSpace(Ch(s, i + 1))
          /\ Ch(s, SkipSpaces(s, i + 1)) = "/"

check_whitespace(expr) ==
    LET s == Strip(expr)
    IN IF \E i \in 1..Len(s) : WhitespaceMatchAt(s, i)
       THEN WhitespaceError ELSE NoError

\* check_brackets without the check of line 121
RECURSIVE check_brackets_loop_unclosed(_, _, _)
check_brackets_loop_unclosed(expr, i, symbol_count) ==
    IF i > Len(expr) THEN NoError
    ELSE LET symbol == Ch(expr, i)
             count == IF symbol = "(" THEN symbol_count + 1
                      ELSE IF symbol = ")" THEN symbol_count - 1
                      ELSE symbol_count
         IN IF count < 0 THEN UnbalancedBracketsError
            ELSE check_brackets_loop_unclosed(expr, i + 1, count)

RECURSIVE check_brackets_loop(_, _, _)
check_brackets_loop(expr, i, symbol_count) ==
    IF i > Len(expr)
    THEN IF symbol_count > 0 THEN UnbalancedBracketsError ELSE NoError
    ELSE LET symbol == Ch(expr, i)
             count == IF symbol = "(" THEN symbol_count + 1
                      ELSE IF symbol = ")" THEN symbol_count - 1
                      ELSE symbol_count
         IN IF count < 0 THEN UnbalancedBracketsError
            ELSE check_brackets_loop(expr, i + 1, count)

check_brackets(expr) == check_brackets_loop(expr, 1, 0)

check_commas(expr) ==
    IF \E i \in 1..Len(expr) :
          /\ Ch(expr, i) = ","
          /\ \/ i = 1
             \/ i = Len(expr)
             \/ Ch(expr, i - 1) \notin {")", "i", "e", "u"} \cup Digits
             \/ Ch(expr, i + 1) \notin Digits \cup {"p", "e", "t", "("}
    THEN UnexpectedCommaError ELSE NoError

(***************************************************************************)
(* Symbol tables.                                                          *)
(***************************************************************************)
operators ==
    "^" :> [prec |-> 4, func |-> "pow"] @@
    "*" :> [prec |-> 3, func |-> "mul"] @@
    "/" :> [prec |-> 3, func |-> "truediv"] @@
    "//" :> [prec |-> 3, func |-> "floordiv"] @@
    "%" :> [prec |-> 3, func |-> "mod"] @@
    "+" :> [prec |-> 2, func |-> "add"] @@
    "-" :> [prec |-> 2, func |-> "sub"]

prefixes ==
    "sin" :> [func |-> "sin", args |-> 1] @@
    "cos" :> [func |-> "cos", args |-> 1] @@
    "tan" :> [func |-> "tan", args |-> 1] @@
    "asin" :> [func |-> "asin", args |-> 1] @@
    "acos" :> [func |-> "acos", args |-> 1] @@
    "atan" :> [func |-> "atan", args |-> 1] @@
    "sqrt" :> [func |-> "sqrt", args |-> 1] @@
    "exp" :> [func |-> "exp", args |-> 1] @@
    "log" :> [func |-> "log", args |-> 2] @@
    "log1p" :> [func |-> "log1p", args |-> 1] @@
    "log10" :> [func |-> "log10", args |-> 1] @@
    "factorial" :> [func |-> "factorial", args |-> 1] @@
    "pow" :> [func |-> "pow", args |-> 2] @@
    "abs" :> [func |-> "abs", args |-> 1] @@
    "round" :> [func |-> "round", args |-> 1] @@
    "p" :> [func |-> "pos", args |-> 1] @@
    "n" :> [func |-> "neg", args |-> 1]

comparators == {"<", ">", "<=", ">=", "==", "!="}

\* Python's None, as the comparator of an expression that holds none
None == "None"

(***************************************************************************)
(* Comparison splitter.                                                    *)
(***************************************************************************)
\* re.findall(r'==|>=|<=|>|<|!=', s), scanning from position i
RECURSIVE findall_comparators(_, _)
findall_comparators(s, i) ==
    IF i > Len(s) THEN <<>>
    ELSE LET two == IF i < Len(s) THEN SubSeq(s, i, i + 1) ELSE ""
         IN IF two \in {"==", ">=", "<=", "!="}
            THEN <<two>> \o findall_comparators(s, i + 2)
            ELSE IF Ch(s, i) \in {">", "<"}
            THEN <<Ch(s, i)>> \o findall_comparators(s, i + 1)
            ELSE findall_comparators(s, i + 1)

\* str.split(sep): cut at every occurrence of sep, leftmost first
RECURSIVE str_split(_, _, _, _)
str_split(s, sep, i, start) ==
    IF i + Len(sep) - 1 > Len(s) THEN <<SubSeq(s, start, Len(s))>>
    ELSE IF SubSeq(s, i, i + Len(sep) - 1) = sep
    THEN <<SubSeq(s, start, i - 1)>> \o str_split(s, sep, i + Len(sep), i + Len(sep))
    ELSE str_split(s, sep, i + 1, start)

\* exc: the exception raised, or NoError and then the pair the function returns
\* (an expression without comparator is returned as the one string it is)
split_comparison(expr) ==
    LET stripped == DropChars(expr, {" ", "\t", "\n"}, 1)
        token == findall_comparators(stripped, 1)
        raised(e) == [exc |-> e, expressions |-> <<>>, comparator |-> None]
    IN IF check_whitespace(expr) # NoError THEN raised(WhitespaceError)
       ELSE IF check_brackets(expr) # NoError THEN raised(UnbalancedBracketsError)
       ELSE IF check_commas(stripped) # NoError THEN raised(UnexpectedCommaError)
       ELSE IF Len(token) > 1 THEN raised(OperatorsError)
       ELSE IF Len(token) = 0
       THEN [exc |-> NoError, expressions |-> <<stripped>>, comparator |-> None]
       ELSE [exc |-> NoError,
             expressions |-> str_split(stripped, token[1], 1, 1),
             comparator |-> token[1]]

(***************************************************************************)
(* Tokenizer.                                                              *)
(***************************************************************************)
InClass(c, class) ==
    CASE class = "d" -> IsDigit(c)
      [] class = "w" -> IsWord(c)
      [] OTHER -> c # "" /\ ~IsWord(c)

\* the position after the longest run of characters of the class from i on
RECURSIVE RunEnd(_, _, _)
RunEnd(s, i, class) ==
    IF i <= Len(s) /\ InClass(Ch(s, i), class) THEN RunEnd(s, i + 1, class) ELSE i

\* the length of re.match(r'\)|\(|\d+\.?\d*|[-+*/,^]|\.\d+|\w+|\W+', s), 0 for None
token_match(s) ==
    LET c == Ch(s, 1)
    IN IF c = "" THEN 0
       ELSE IF c \in {")", "("} THEN 1
       ELSE IF IsDigit(c)
       THEN LET d == RunEnd(s, 1, "d")
            IN IF Ch(s, d) = "." THEN RunEnd(s, d + 1, "d") - 1 ELSE d - 1
       ELSE IF c \in {"-", "+", "*", "/", ",", "^"} THEN 1
       ELSE IF c = "." /\ IsDigit(Ch(s, 2)) THEN RunEnd(s, 2, "d") - 1
       ELSE IF IsWord(c) THEN RunEnd(s, 1, "w") - 1
       ELSE RunEnd(s, 1, "W") - 1

\* token is literal, for a one-character literal: shared tells whether the
\* one-character tokens are the interpreter's shared one-character strings
Is(token, literal, shared) == token = literal /\ shared

\* the loop of lines 148-157: a sign becomes the prefix p or n after an operator,
\* after p or n, after "(" and at index 0 (where index - 1 reads the last token)
RECURSIVE unary_pass(_, _, _)
unary_pass(queue, index, shared) ==
    IF index > Len(queue) THEN queue
    ELSE LET before == queue[IF index = 1 THEN Len(queue) ELSE index - 1]
             unary == \/ before \in DOMAIN operators
                      \/ Is(before, "p", shared)
                      \/ Is(before, "n", shared)
                      \/ Is(before, "(", shared)
                      \/ index = 1
             token == queue[index]
         IN unary_pass(IF unary /\ Is(token, "+", shared)
                       THEN [queue EXCEPT ![index] = "p"]
                       ELSE IF unary /\ Is(token, "-", shared)
                       THEN [queue EXCEPT ![index] = "n"]
                       ELSE queue,
                       index + 1, shared)

\* the recursion of lines 139-146 on a normalised, non-empty rest of the string
RECURSIVE match_tokens(_, _)
match_tokens(s, queue) ==
    LET n == token_match(s)
    IN IF n = 0 THEN <<>>
       ELSE IF n < Len(s)
       THEN match_tokens(SubSeq(s, n + 1, Len(s)), Append(queue, SubSeq(s, 1, n)))
       ELSE Append(queue, SubSeq(s, 1, n))

\* line 137
normalise(expr) == DropChars(Lower(Strip(expr)), {" "}, 1)

\* whether the tokens of expr are cut out of a longer string, and so shared
cut_out(expr) == Len(normalise(expr)) # 1

get_tokens(expr, shared) ==
    IF expr = "" THEN [exc |-> EmptyExpressionError, queue |-> <<>>]
    ELSE LET s == normalise(expr)
         IN IF token_match(s) = 0 THEN [exc |-> ParseError, queue |-> <<>>]
            ELSE [exc |-> NoError,
                  queue |-> unary_pass(match_tokens(s, <<>>), 1, shared)]

(***************************************************************************)
(* Numbers.  The value of a float: the rational n/d in lowest terms with   *)
(* d > 0 when t = "", and otherwise the call t that produced a value the   *)
(* model does not compute (n = 0, d = 1 then); big tells that this value   *)
(* is an integer above MaxExact.                                           *)
(***************************************************************************)
Abs(x) == IF x < 0 THEN -x ELSE x

RECURSIVE GCD(_, _)
GCD(a, b) == IF b = 0 THEN a ELSE GCD(b, a % b)

Exact(n, d) == [n |-> n, d |-> d, t |-> "", big |-> FALSE]
Inexact(text) == [n |-> 0, d |-> 1, t |-> text, big |-> FALSE]
Big(text) == [n |-> 0, d |-> 1, t |-> text, big |-> TRUE]
IsExact(v) == v.t = ""
Zero == Exact(0, 1)

Text(v) == IF IsExact(v) THEN ToString(v.n) \o "/" \o ToString(v.d) ELSE v.t
Call1(f, x) == Inexact(f \o "(" \o Text(x) \o ")")
Call2(f, x, y) == Inexact(f \o "(" \o Text(x) \o "," \o Text(y) \o ")")

\* n/d (d # 0) in lowest terms, or the call `otherwise` when it exceeds MaxExact
Rational(n, d, otherwise) ==
    LET g == GCD(Abs(n), Abs(d))
        sn == IF d < 0 THEN -n ELSE n
    IN IF Abs(n) \div g > MaxExact \/ Abs(d) \div g > MaxExact THEN otherwise
       ELSE Exact((IF sn < 0 THEN -1 ELSE 1) * (Abs(n) \div g), Abs(d) \div g)

\* floor(x / y) and x - y * floor(x / y) for integers, y # 0
FloorDiv(x, y) == IF y > 0 THEN x \div y ELSE (-x) \div (-y)
FloorMod(x, y) == IF y > 0 THEN x % y ELSE -((-x) % (-y))

\* m^k for m >= 2, or -1 once it exceeds MaxExact
RECURSIVE PowerUpTo(_, _, _)
PowerUpTo(m, k, acc) ==
    IF k = 0 THEN acc
    ELSE IF acc * m > MaxExact THEN -1
    ELSE PowerUpTo(m, k - 1, acc * m)

NatPower(m, k) == IF k = 0 THEN 1 ELSE IF m <= 1 THEN m ELSE PowerUpTo(m, k, 1)

\* x^k for an exact x # 0 and an integer k, or the call `otherwise`
IntPower(x, k, otherwise) ==
    LET num == IF k >= 0 THEN Abs(x.n) ELSE x.d
        den == IF k >= 0 THEN x.d ELSE Abs(x.n)
        pn == NatPower(num, Abs(k))
        pd == NatPower(den, Abs(k))
        negative == x.n < 0 /\ Abs(k) % 2 = 1
    IN IF pn < 0 \/ pd < 0
       THEN IF k > 0 /\ x.d = 1 /\ x.n >= 2 THEN Big(otherwise.t) ELSE otherwise
       ELSE Exact(IF negative THEN -pn ELSE pn, pd)

Returns(v) == [exc |-> NoError, val |-> v]
Raises(e) == [exc |-> e, val |-> Zero]

\* the largest k with 2^k <= m, for m >= 1
RECURSIVE Log2Floor(_)
Log2Floor(m) == IF m < 2 THEN 0 ELSE 1 + Log2Floor(m \div 2)

\* x^y is 2^1024 or more, which no float holds (decided from the integer part
\* of x, for an integer y)
Overflows(x, y) ==
    LET bits == Log2Floor(Abs(x.n) \div x.d)
    IN \/ y.big /\ bits >= 1
       \/ IsExact(y) /\ y.d = 1 /\ y.n > 0 /\ y.n * bits >= 1024

\* operator.pow on floats; zeroError is what 0 to a negative power raises
Power(x, y, zeroError) ==
    LET call == Call2("pow", x, y)
    IN IF ~IsExact(x) THEN Returns(call)
       ELSE IF Overflows(x, y) THEN Raises(OverflowError)
       ELSE IF ~IsExact(y) THEN Returns(call)
       ELSE IF y.d = 1
       THEN IF x.n = 0
            THEN IF y.n < 0 THEN Raises(zeroError)
                 ELSE Returns(IF y.n = 0 THEN Exact(1, 1) ELSE Zero)
            ELSE Returns(IntPower(x, y.n, call))
       ELSE IF x.n = 0 THEN (IF y.n < 0 THEN Raises(zeroError) ELSE Returns(Zero))
       ELSE IF x = Exact(1, 1) THEN Returns(x)
       ELSE Returns(call)

\* operators[token].func(operand_1, operand_2)
BinaryFunc(func, x, y) ==
    LET call == Call2(func, x, y)
        X == x.n * y.d
        Y == y.n * x.d
        L == x.d * y.d
    IN IF func = "pow" THEN Power(x, y, ZeroDivisionError)
       ELSE IF func \in {"truediv", "floordiv", "mod"} /\ y = Zero
       THEN Raises(ZeroDivisionError)
       ELSE IF ~IsExact(x) \/ ~IsExact(y) THEN Returns(call)
       ELSE CASE func = "add" -> Returns(Rational(X + Y, L, call))
              [] func = "sub" -> Returns(Rational(X - Y, L, call))
              [] func = "mul" -> Returns(Rational(x.n * y.n, L, call))
              [] func = "truediv" ->
                    IF y.n = 0 THEN Raises(ZeroDivisionError)
                    ELSE Returns(Rational(X, Y, call))
              [] func = "floordiv" ->
                    IF y.n = 0 THEN Raises(ZeroDivisionError)
                    ELSE Returns(Rational(FloorDiv(X, Y), 1, call))
              [] func = "mod" ->
                    IF y.n = 0 THEN Raises(ZeroDivisionError)
                    ELSE Returns(Rational(FloorMod(X, Y), L, call))

\* round(x) of a float: to the nearest integer, a tie to the even one
RoundHalfEven(x) ==
    LET q == FloorDiv(x.n, x.d)
        twice == 2 * (x.n - q * x.d)
    IN IF twice < x.d \/ (twice = x.d /\ q % 2 = 0) THEN q ELSE q + 1

RECURSIVE FactorialUpTo(_, _)
FactorialUpTo(k, acc) ==
    IF k <= 1 THEN acc
    ELSE IF acc * k > MaxExact THEN -1
    ELSE FactorialUpTo(k - 1, acc * k)

\* the k with base^k = x among the small integers, or 0 with found = FALSE
ExactLog(x, base) ==
    LET ks == {k \in -14..14 : IntPower(base, k, Zero) = x}
    IN IF base.n = 0 \/ ks = {} THEN [found |-> FALSE, k |-> 0]
       ELSE [found |-> TRUE, k |-> CHOOSE k \in ks : TRUE]

\* prefixes[token].func(operand)
PrefixFunc1(func, x) ==
    LET call == Call1(func, x)
    IN IF func = "pow" THEN Raises(TypeError)
       ELSE IF ~IsExact(x) THEN Returns(call)
       ELSE CASE func = "neg" -> Returns(Exact(-x.n, x.d))
              [] func = "pos" -> Returns(x)
              [] func = "abs" -> Returns(Exact(Abs(x.n), x.d))
              [] func = "round" -> Returns(Exact(RoundHalfEven(x), 1))
              [] func = "factorial" ->
                    IF x.d # 1 \/ x.n < 0 THEN Raises(ValueError)
                    ELSE LET f == FactorialUpTo(x.n, 1)
                         IN Returns(IF f < 0 THEN call ELSE Exact(f, 1))
              [] func \in {"log", "log10", "sqrt"} ->
                    IF x.n < 0 \/ (x.n = 0 /\ func # "sqrt") THEN Raises(ValueError)
                    ELSE IF x = Exact(1, 1) THEN Returns(IF func = "sqrt" THEN x ELSE Zero)
                    ELSE IF x.n = 0 THEN Returns(Zero)
                    ELSE Returns(call)
              [] OTHER -> Returns(call)

\* prefixes[token].func(operand_1, operand_2): math.log(x, base), math.pow(x, y)
PrefixFunc2(func, x, y) ==
    LET call == Call2(func, x, y)
    IN IF func = "pow"
       THEN IF IsExact(x) /\ IsExact(y) /\ x.n < 0 /\ y.d # 1 THEN Raises(ValueError)
            ELSE Power(x, y, ValueError)
       ELSE IF IsExact(x) /\ x.n <= 0 THEN Raises(ValueError)
       ELSE IF IsExact(y) /\ y.n <= 0 THEN Raises(ValueError)
       ELSE IF y = Exact(1, 1) THEN Raises(ZeroDivisionError)
       ELSE IF ~IsExact(x) \/ ~IsExact(y) THEN Returns(call)
       ELSE IF ExactLog(x, y).found THEN Returns(Exact(ExactLog(x, y).k, 1))
       ELSE Returns(call)

DigitValue ==
    "0" :> 0 @@ "1" :> 1 @@ "2" :> 2 @@ "3" :> 3 @@ "4" :> 4 @@
    "5" :> 5 @@ "6" :> 6 @@ "7" :> 7 @@ "8" :> 8 @@ "9" :> 9

\* a token of the forms \d+\.?\d* and \.\d+
IsNumeral(s) ==
    /\ \E i \in 1..Len(s) : IsDigit(Ch(s, i))
    /\ \A i \in 1..Len(s) : IsDigit(Ch(s, i)) \/ Ch(s, i) = "."
    /\ Cardinality({i \in 1..Len(s) : Ch(s, i) = "."}) <= 1

\* isnumber(num) of a token of the input queue: whether float(num) succeeds
isnumber(num) == IsNumeral(num) \/ num \in {"inf", "infinity", "nan"}

\* the digits of s from position i on, read as a natural number (-1: too large)
RECURSIVE DigitsValue(_, _, _)
DigitsValue(s, i, acc) ==
    IF i > Len(s) THEN acc
    ELSE IF Ch(s, i) = "." THEN DigitsValue(s, i + 1, acc)
    ELSE IF acc * 10 + DigitValue[Ch(s, i)] > MaxExact * 10 THEN -1
    ELSE DigitsValue(s, i + 1, acc * 10 + DigitValue[Ch(s, i)])

\* float(token) for a token that isnumber accepts
float(token) ==
    LET dots == {i \in 1..Len(token) : Ch(token, i) = "."}
        decimals == IF dots = {} THEN 0 ELSE Len(token) - (CHOOSE i \in dots : TRUE)
        n == DigitsValue(token, 1, 0)
        scale == NatPower(10, decimals)
    IN IF ~IsNumeral(token) \/ n < 0 \/ scale < 0 THEN Inexact(token)
       ELSE Rational(n, scale, Inexact(token))

\* math.pi, math.e, math.tau
constants ==
    "pi" :> Inexact("pi") @@ "e" :> Inexact("e") @@ "tau" :> Inexact("tau")

(***************************************************************************)
(* Infix-to-postfix converter.  The operator stack is a sequence of tokens *)
(* with its top last; an element of the output queue is a number (sym =    *)
(* "") or a token moved over from the operator stack.                      *)
(***************************************************************************)
Number(v) == [sym |-> "", val |-> v]
Symbol(token) == [sym |-> token, val |-> Zero]

Top(s) == s[Len(s)]
Pop(s) == SubSeq(s, 1, Len(s) - 1)
Contains(s, x) == \E i \in 1..Len(s) : s[i] = x

Converting(iq, oq, os) ==
    [exc |-> NoError, input_queue |-> iq, output_queue |-> oq, operator_stack |-> os]
ConvertRaises(e, iq, oq, os) ==
    [exc |-> e, input_queue |-> iq, output_queue |-> oq, operator_stack |-> os]

\* while operator_stack[-1] is not '(': output_queue.append(operator_stack.pop())
\* (lines 182-183 and 202-203); found = FALSE when the stack runs empty, where
\* operator_stack[-1] raises IndexError
RECURSIVE pop_to_paren(_, _)
pop_to_paren(oq, os) ==
    IF os = <<>> THEN [found |-> FALSE, output_queue |-> oq, operator_stack |-> os]
    ELSE IF Top(os) = "(" THEN [found |-> TRUE, output_queue |-> oq, operator_stack |-> os]
    ELSE pop_to_paren(Append(oq, Symbol(Top(os))), Pop(os))

\* pops_top without the exception for ^ of line 196
pops_top_left_to_right(token, top) ==
    /\ top # "("
    /\ \/ top \in DOMAIN prefixes
       \/ operators[token].prec < operators[top].prec
       \/ operators[top].prec = operators[token].prec

\* the condition of lines 192-196 under which the stack's top is popped
pops_top(token, top) ==
    /\ top # "("
    /\ \/ top \in DOMAIN prefixes
       \/ operators[token].prec < operators[top].prec
       \/ operators[top].prec = operators[token].prec /\ token # "^"

\* pop_for_operator without the append of line 197
RECURSIVE pop_for_operator_dropping(_, _, _)
pop_for_operator_dropping(token, oq, os) ==
    IF os = <<>> THEN [output_queue |-> oq, operator_stack |-> os]
    ELSE IF pops_top(token, Top(os))
    THEN pop_for_operator_dropping(token, oq, Pop(os))
    ELSE [output_queue |-> oq, operator_stack |-> os]

\* the loop of lines 188-200, up to the push of the operator
RECURSIVE pop_for_operator(_, _, _)
pop_for_operator(token, oq, os) ==
    IF os = <<>> THEN [output_queue |-> oq, operator_stack |-> os]
    ELSE IF pops_top(token, Top(os))
    THEN pop_for_operator(token, Append(oq, Symbol(Top(os))), Pop(os))
    ELSE [output_queue |-> oq, operator_stack |-> os]

\* the check of lines 162-163
trailing_operator(iq) == Top(iq) \in DOMAIN operators \/ Top(iq) \in DOMAIN prefixes

\* one turn of the loop of lines 166-207, for a non-empty input queue
convert_token(iq, oq, os, shared) ==
    LET token == Head(iq)
    IN IF isnumber(token) THEN Converting(Tail(iq), Append(oq, Number(float(token))), os)
       ELSE IF token \in DOMAIN constants
       THEN Converting(Tail(iq), Append(oq, Number(constants[token])), os)
       ELSE IF token \in DOMAIN prefixes THEN Converting(Tail(iq), oq, Append(os, token))
       ELSE IF Is(token, "(", shared) THEN Converting(Tail(iq), oq, Append(os, token))
       ELSE IF Is(token, ",", shared)
       THEN IF ~Contains(os, "log") /\ ~Contains(os, "pow")
            THEN ConvertRaises(UnexpectedCommaError, iq, oq, os)
            ELSE LET r == pop_to_paren(oq, os)
                 IN IF r.found THEN Converting(Tail(iq), r.output_queue, r.operator_stack)
                    ELSE ConvertRaises(UnexpectedCommaError, iq,
                                       r.output_queue, r.operator_stack)
       ELSE IF token \in DOMAIN operators
       THEN LET r == pop_for_operator(token, oq, os)
            IN Converting(Tail(iq), r.output_queue, Append(r.operator_stack, token))
       ELSE IF Is(token, ")", shared)
       THEN LET r == pop_to_paren(oq, os)
            IN IF r.found THEN Converting(Tail(iq), r.output_queue, Pop(r.operator_stack))
               ELSE ConvertRaises(IndexError, iq, r.output_queue, r.operator_stack)
       ELSE ConvertRaises(UnknownTokensError, iq, oq, os)

\* lines 208-210: the rest of the operator stack, top first
RECURSIVE drain(_, _)
drain(oq, os) == IF os = <<>> THEN oq ELSE drain(Append(oq, Symbol(Top(os))), Pop(os))

(***************************************************************************)
(* Postfix evaluator.  The value stack has its top last.                   *)
(***************************************************************************)
Calculating(rest, st) == [exc |-> NoError, expression |-> rest, stack |-> st]
CalculateRaises(e, rest, st) == [exc |-> e, expression |-> rest, stack |-> st]

\* a function's outcome pushed on what is left of the stack, or its exception
Pushed(outcome, rest, st) ==
    IF outcome.exc = NoError THEN Calculating(rest, Append(st, outcome.val))
    ELSE CalculateRaises(outcome.exc, rest, st)

\* the test of line 246 for a prefix function declared with two arguments
single_argument(st) == Len(st) = 1

\* lines 240-243 and 251-254: two pops, the second one the left operand
two_operands(func, binary, rest, st) ==
    IF Len(st) < 2 THEN CalculateRaises(IndexError, rest, <<>>)
    ELSE Pushed(IF binary THEN BinaryFunc(func, st[Len(st) - 1], st[Len(st)])
                ELSE PrefixFunc2(func, st[Len(st) - 1], st[Len(st)]),
                rest, Pop(Pop(st)))

\* lines 247-249 and 256-258: one pop
one_operand(func, rest, st) ==
    IF Len(st) < 1 THEN CalculateRaises(IndexError, rest, <<>>)
    ELSE Pushed(PrefixFunc1(func, st[Len(st)]), rest, Pop(st))

\* one turn of the loop of lines 235-258, for a non-empty postfix expression
calculate_token(expr, st) ==
    LET token == Head(expr)
        rest == Tail(expr)
    IN IF token.sym = "" THEN Calculating(rest, Append(st, token.val))
       ELSE IF token.sym \in DOMAIN operators
       THEN two_operands(operators[token.sym].func, TRUE, rest, st)
       ELSE IF token.sym \in DOMAIN prefixes
       THEN IF prefixes[token.sym].args = 2
            THEN IF single_argument(st)
                 THEN one_operand(prefixes[token.sym].func, rest, st)
                 ELSE two_operands(prefixes[token.sym].func, FALSE, rest, st)
            ELSE one_operand(prefixes[token.sym].func, rest, st)
       ELSE Calculating(rest, st)

\* lines 259-262
calculate_end(st) == IF Len(st) = 1 THEN Returns(st[1]) ELSE Raises(OperandsError)

(***************************************************************************)
(* What get_result returns and what main prints.                           *)
(***************************************************************************)
NoResult == [kind |-> "none", val |-> Zero, list |-> <<>>]
NumberResult(v) == [kind |-> "number", val |-> v, list |-> <<>>]
ListResult(l) == [kind |-> "list", val |-> Zero, list |-> l]

Line(kind, text, r) == [kind |-> kind, text |-> text, val |-> r.val, list |-> r.list]
\* print(exception), line 293
ExceptionLine(e) == Line("exception", e, NoResult)
\* print("ERROR: {err}."), line 271
ErrorLine(e) == Line("error", e, NoResult)
\* print(get_result(expressions)), line 289
ResultLine(r) == Line(r.kind, "", r)
\* print(compare(expressions, comparator)), line 291
BoolLine(b) == Line("bool", IF b THEN "True" ELSE "False", NoResult)

\* the printable ASCII characters in code point order: 32 to 95, and 97 to 126
AsciiLow ==
    " !\"#$%&'()*+,-./0123456789:;<=>?@ABCDEFGHIJKLMNOPQRSTUVWXYZ[\\]^_"
AsciiHigh == "abcdefghijklmnopqrstuvwxyz{|}~"

\* ord(c)
Ord(c) ==
    IF \E i \in 1..Len(AsciiLow) : Ch(AsciiLow, i) = c
    THEN 31 + CHOOSE i \in 1..Len(AsciiLow) : Ch(AsciiLow, i) = c
    ELSE 96 + CHOOSE i \in 1..Len(AsciiHigh) : Ch(AsciiHigh, i) = c

\* a < b for Python strings: by code points, a proper prefix first
RECURSIVE str_lt(_, _, _)
str_lt(a, b, i) ==
    IF i > Len(b) THEN FALSE
    ELSE IF i > Len(a) THEN TRUE
    ELSE IF Ch(a, i) # Ch(b, i) THEN Ord(Ch(a, i)) < Ord(Ch(b, i))
    ELSE str_lt(a, b, i + 1)

\* comparators[comparator](a, b) from what < and == give on a and b
Comparison(cmp, lt, eq) ==
    CASE cmp = "<" -> lt
      [] cmp = ">" -> ~lt /\ ~eq
      [] cmp = "<=" -> lt \/ eq
      [] cmp = ">=" -> ~lt
      [] cmp = "==" -> eq
      [] cmp = "!=" -> ~eq

\* line 277: the comparator applied to expressions[0] and expressions[1]
compare(exprs, cmp, calculated) ==
    Comparison(cmp, str_lt(exprs[1], exprs[2], 1), exprs[1] = exprs[2])

(***************************************************************************)
(* The expressions given to main.                                          *)
(***************************************************************************)
RECURSIVE Join(_)
Join(pieces) == IF pieces = <<>> THEN "" ELSE Head(pieces) \o Join(Tail(pieces))

Sequences(S, n) == UNION {[1..k -> S] : k \in 0..n}

Lexemes == {"0", "1", "2", "+", "-", "*", "/", "%", "^", "(", ")", ",", ".", "log", ">"}

\* every string of at most MaxLen lexemes
FreeInputs == {Join(pieces) : pieces \in Sequences(Lexemes, MaxLen)}

ArithmeticNumerals == {"2", "3"}
ArithmeticOperators == {"^", "*", "/", "%", "+", "-"}

\* numerals separated by exactly k binary operators, without parentheses
RECURSIVE ArithmeticOf(_)
ArithmeticOf(k) ==
    IF k = 0 THEN ArithmeticNumerals
    ELSE {s \o op \o n : s \in ArithmeticOf(k - 1),
                         op \in ArithmeticOperators, n \in ArithmeticNumerals}

ArithmeticInputs == UNION {ArithmeticOf(k) : k \in 0..MaxOps}

\* one operator symbol of the vocabulary between two numerals, the second one signed or not
BinaryInputs ==
    {ToString(a) \o op \o sign \o ToString(b) :
        a \in 0..MaxNum, b \in 0..MaxNum, op \in DOMAIN operators, sign \in {"", "-"}}

\* every string of at most MaxBr brackets and digits
BracketInputs == {Join(pieces) : pieces \in Sequences({"(", ")", "1"}, MaxBr)}

\* the examples of the specification and of the program's error cases
ExampleInputs ==
    {"3+4>5", "3+4>5>2", "3+4<5", "2+3*4", "2^3^2", "10-3-2", "(((1)))", "3*-2", "-3-2",
     "-(2+3)", "log(8,2)", "log(2)", "1+log(2)", "1+log(8,2)", "log(2)+1", "pow(2,3)",
     "pow(2)", "1,2", "3+", "1/0", "1/0+2", "2+1/0", "(1+2", "(1>2)", "(1)>(2)", "*3",
     "6//2", "5%-2", "5%2", "1 2", "3 + 4", "1 > = 2", "2>=1", "1==1", "1!=1", "1<=2",
     "LOG(8,2)", "2*pi", "1.5+.5", " ", "log(8,1)", "2^-1", "0^-1", "7//2", "abs(-2)"}

\* a call of log or pow with one or two arguments, alone or as a right operand
CallPrefixes == {"", "1+", "2*"}
CallNames == {"log", "pow"}
CallNumerals == {"2", "8"}
CallArguments == {<<x>> : x \in CallNumerals} \cup (CallNumerals \X CallNumerals)
CallInput(before, name, arguments) ==
    before \o name \o "(" \o arguments[1]
        \o (IF Len(arguments) = 2 THEN "," \o arguments[2] ELSE "") \o ")"
CallInputs ==
    {CallInput(before, name, arguments) :
        before \in CallPrefixes, name \in CallNames, arguments \in CallArguments}

Inputs ==
    FreeInputs \cup ArithmeticInputs \cup BinaryInputs \cup BracketInputs
        \cup CallInputs \cup ExampleInputs

(***************************************************************************)
(* The program: main on one expression, get_result once per side.          *)
(***************************************************************************)
Init ==
    /\ expression \in Inputs
    /\ pc = "main"
    /\ expressions = <<>>
    /\ comparator = None
    /\ side = 1
    /\ input_queue = <<>>
    /\ output_queue = <<>>
    /\ operator_stack = <<>>
    /\ postfix = <<>>
    /\ stack = <<>>
    /\ result = NoResult
    /\ calculated_expressions = <<>>
    /\ printed = <<>>
    /\ interned = TRUE

\* an exception reaches main's handler, which prints it (lines 292-293)
Raise(e) ==
    /\ printed' = Append(printed, ExceptionLine(e))
    /\ pc' = "done"

\* lines 286-287
Main ==
    /\ pc = "main"
    /\ LET r == split_comparison(expression)
       IN IF r.exc # NoError
          THEN Raise(r.exc) /\ UNCHANGED <<expressions, comparator>>
          ELSE /\ expressions' = r.expressions
               /\ comparator' = r.comparator
               /\ pc' = "get_tokens"
               /\ UNCHANGED printed
    /\ UNCHANGED <<expression, side, input_queue, output_queue, operator_stack,
                   postfix, stack, result, calculated_expressions, interned>>

\* line 266
GetTokens ==
    /\ pc = "get_tokens"
    /\ interned' \in IF cut_out(expressions[side]) THEN {TRUE} ELSE BOOLEAN
    /\ LET r == get_tokens(expressions[side], interned')
       IN IF r.exc # NoError
          THEN Raise(r.exc) /\ UNCHANGED input_queue
          ELSE input_queue' = r.queue /\ pc' = "convert" /\ UNCHANGED printed
    /\ UNCHANGED <<expression, expressions, comparator, side, output_queue,
                   operator_stack, postfix, stack, result, calculated_expressions>>

\* lines 162-165
ConvertStart ==
    /\ pc = "convert"
    /\ IF trailing_operator(input_queue)
       THEN Raise(OperatorsError) /\ UNCHANGED <<output_queue, operator_stack>>
       ELSE /\ output_queue' = <<>>
            /\ operator_stack' = <<>>
            /\ pc' = "convert_loop"
            /\ UNCHANGED printed
    /\ UNCHANGED <<expression, expressions, comparator, side, input_queue,
                   postfix, stack, result, calculated_expressions, interned>>

\* lines 166-207, one token
ConvertToken ==
    /\ pc = "convert_loop"
    /\ input_queue # <<>>
    /\ LET r == convert_token(input_queue, output_queue, operator_stack, interned)
       IN /\ input_queue' = r.input_queue
          /\ output_queue' = r.output_queue
          /\ operator_stack' = r.operator_stack
          /\ IF r.exc # NoError THEN Raise(r.exc) ELSE UNCHANGED <<pc, printed>>
    /\ UNCHANGED <<expression, expressions, comparator, side, postfix, stack,
                   result, calculated_expressions, interned>>

\* lines 208-210 and 267, and line 234
ConvertDrain ==
    /\ pc = "convert_loop"
    /\ input_queue = <<>>
    /\ output_queue' = drain(output_queue, operator_stack)
    /\ operator_stack' = <<>>
    /\ postfix' = output_queue'
    /\ stack' = <<>>
    /\ pc' = "calculate"
    /\ UNCHANGED <<expression, expressions, comparator, side, input_queue,
                   result, calculated_expressions, printed, interned>>

\* lines 235-258, one token; a ZeroDivisionError is caught by get_result, which
\* prints it and returns its variable expression: what is left of the postfix list
CalculateToken ==
    /\ pc = "calculate"
    /\ postfix # <<>>
    /\ LET r == calculate_token(postfix, stack)
       IN /\ postfix' = r.expression
          /\ stack' = r.stack
          /\ IF r.exc = NoError THEN UNCHANGED <<pc, printed, result>>
             ELSE IF r.exc = ZeroDivisionError
             THEN /\ printed' = Append(printed, ErrorLine(r.exc))
                  /\ result' = ListResult(r.expression)
                  /\ pc' = "return"
             ELSE Raise(r.exc) /\ UNCHANGED result
    /\ UNCHANGED <<expression, expressions, comparator, side, input_queue,
                   output_queue, operator_stack, calculated_expressions, interned>>

\* lines 259-262 and 269
CalculateEnd ==
    /\ pc = "calculate"
    /\ postfix = <<>>
    /\ LET r == calculate_end(stack)
       IN IF r.exc # NoError
          THEN Raise(r.exc) /\ UNCHANGED result
          ELSE result' = NumberResult(r.val) /\ pc' = "return" /\ UNCHANGED printed
    /\ UNCHANGED <<expression, expressions, comparator, side, input_queue,
                   output_queue, operator_stack, postfix, stack, calculated_expressions, interned>>

\* lines 272 and 289: the result of an expression without comparator is printed
PrintResult ==
    /\ pc = "return"
    /\ comparator = None
    /\ printed' = Append(printed, ResultLine(result))
    /\ pc' = "done"
    /\ UNCHANGED <<expression, expressions, comparator, side, input_queue, output_queue,
                   operator_stack, postfix, stack, result, calculated_expressions, interned>>

\* lines 272 and 276: the list comprehension goes on to the next expression
NextExpression ==
    /\ pc = "return"
    /\ comparator # None
    /\ side < Len(expressions)
    /\ calculated_expressions' = Append(calculated_expressions, result)
    /\ side' = side + 1
    /\ pc' = "get_tokens"
    /\ UNCHANGED <<expression, expressions, comparator, input_queue, output_queue,
                   operator_stack, postfix, stack, result, printed, interned>>

\* lines 276-277 and 291
Compare ==
    /\ pc = "return"
    /\ comparator # None
    /\ side = Len(expressions)
    /\ calculated_expressions' = Append(calculated_expressions, result)
    /\ printed' = Append(printed,
                         BoolLine(compare(expressions, comparator, calculated_expressions')))
    /\ pc' = "done"
    /\ UNCHANGED <<expression, expressions, comparator, side, input_queue, output_queue,
                   operator_stack, postfix, stack, result, interned>>

Next ==
    \/ Main
    \/ GetTokens
    \/ ConvertStart
    \/ ConvertToken
    \/ ConvertDrain
    \/ CalculateToken
    \/ CalculateEnd
    \/ PrintResult
    \/ NextExpression
    \/ Compare

Spec == Init /\ [][Next]_vars

(***************************************************************************)
(* The claims.                                                             *)
(***************************************************************************)
Last(s) == s[Len(s)]
Count(s, x) == Cardinality({i \in 1..Len(s) : s[i] = x})
Range(s) == {s[i] : i \in 1..Len(s)}
Value(k) == Exact(k, 1)
Printed(v) == <<ResultLine(NumberResult(v))>>

\* get_result is at work on expressions[side], whose tokens get_tokens has returned
Tokenized == pc \in {"convert", "convert_loop", "calculate", "return"}
\* the tokens before the unary pass, and after it
RawTokens == match_tokens(normalise(expressions[side]), <<>>)
SideTokens == get_tokens(expressions[side], interned).queue

\* a < b and a = b for exact rationals
ValueLess(a, b) == a.n * b.d < b.n * a.d

\* C1: with exactly one comparator, what is printed is the comparator's predicate
\* applied to the two computed numbers (3+4>5 prints True), not to the substrings
C1_ComparesComputedResults ==
    (/\ pc = "done"
     /\ comparator # None
     /\ Len(calculated_expressions) = 2
     /\ \A i \in 1..2 : /\ calculated_expressions[i].kind = "number"
                        /\ IsExact(calculated_expressions[i].val))
    => Last(printed) =
          BoolLine(Comparison(comparator,
                              ValueLess(calculated_expressions[1].val,
                                        calculated_expressions[2].val),
                              calculated_expressions[1].val = calculated_expressions[2].val))

(***************************************************************************)
(* The reference evaluation of numerals separated by binary operators:     *)
(* the expression is cut at its loosest operator, the last + or -, else    *)
(* the last * / // %, else the first ^.                                    *)
(***************************************************************************)
ReferenceFunction ==
    "^" :> "pow" @@ "*" :> "mul" @@ "/" :> "truediv" @@ "//" :> "floordiv" @@
    "%" :> "mod" @@ "+" :> "add" @@ "-" :> "sub"

Largest(S) == CHOOSE i \in S : \A j \in S : j <= i
Smallest(S) == CHOOSE i \in S : \A j \in S : i <= j

RECURSIVE Reference(_)
Reference(tokens) ==
    IF Len(tokens) = 1 THEN Returns(float(tokens[1]))
    ELSE LET additive == {i \in 1..Len(tokens) : tokens[i] \in {"+", "-"}}
             multiplicative == {i \in 1..Len(tokens) : tokens[i] \in {"*", "/", "//", "%"}}
             powers == {i \in 1..Len(tokens) : tokens[i] = "^"}
             at == IF additive # {} THEN Largest(additive)
                   ELSE IF multiplicative # {} THEN Largest(multiplicative)
                   ELSE Smallest(powers)
             left == Reference(SubSeq(tokens, 1, at - 1))
             right == Reference(SubSeq(tokens, at + 1, Len(tokens)))
         IN IF left.exc # NoError THEN left
            ELSE IF right.exc # NoError THEN right
            ELSE BinaryFunc(ReferenceFunction[tokens[at]], left.val, right.val)

\* numerals separated by binary operators
IsArithmetic(tokens) ==
    /\ Len(tokens) % 2 = 1
    /\ \A i \in 1..Len(tokens) :
          IF i % 2 = 1 THEN IsNumeral(tokens[i]) ELSE tokens[i] \in DOMAIN ReferenceFunction

\* the current expression is such a sequence and its reference evaluation has a value
ValidArithmetic ==
    /\ expressions # <<>>
    /\ IsArithmetic(SideTokens)
    /\ Reference(SideTokens).exc = NoError

\* C2: for numerals separated by binary operators, without parentheses, converting
\* to postfix and evaluating gives the reference value: ^ binds tighter than
\* * / %, these tighter than + -, ^ groups from the right and the others from
\* the left (2^3^2 = 512, 10-3-2 = 5, 2+3*4 = 14)
C2_PrecedenceAndAssociativity ==
    /\ (pc = "return" /\ ValidArithmetic)
          => result = NumberResult(Reference(SideTokens).val)
    /\ (pc = "done" /\ comparator = None /\ ValidArithmetic)
          => printed = Printed(Reference(SideTokens).val)
    /\ (pc = "done" /\ expression = "2^3^2") => printed = Printed(Value(512))
    /\ (pc = "done" /\ expression = "10-3-2") => printed = Printed(Value(5))
    /\ (pc = "done" /\ expression = "2+3*4") => printed = Printed(Value(14))

C2_Witness ==
    /\ pc = "done"
    /\ expression = "2^3^2"
    /\ ValidArithmetic
    /\ printed = Printed(Value(512))

\* C3: once a division by zero has been caught and reported, get_result hands
\* nothing to its caller: neither a number nor a list nor a comparison of them
\* is printed as the result
C3_ZeroDivisionHandsNoResult ==
    Contains(printed, ErrorLine(ZeroDivisionError))
    => /\ result = NoResult
       /\ \A i \in 1..Len(printed) : printed[i].kind \notin {"number", "list", "bool"}

\* C4: for every binary operator op of the vocabulary and numerals a and b, a op b
\* and a op -b are cut into the tokens a, op, b (with the sign's prefix token
\* before b), and the pipeline prints op's function applied to a and b
C4_EveryOperatorUsable ==
    \A a \in 0..MaxNum, b \in 0..MaxNum, op \in DOMAIN operators, sign \in {"", "-"} :
        LET x == Value(a)
            y == Value(IF sign = "-" THEN -b ELSE b)
            expected == BinaryFunc(operators[op].func, x, y)
        IN expression = ToString(a) \o op \o sign \o ToString(b)
           => /\ pc = "convert"
                 => input_queue = <<ToString(a), op>>
                        \o (IF sign = "-" THEN <<"n">> ELSE <<>>) \o <<ToString(b)>>
              /\ (pc = "done" /\ expected.exc = NoError)
                 => printed = Printed(expected.val)

\* C5: the evaluation of a postfix sequence that the converter produced raises
\* OperandsError for a wrong number of operands: no step of it pops from an empty
\* value stack (a division by zero aside, a step either goes on or ends the loop)
C5_NeverPopsEmptyStack ==
    (pc = "calculate" /\ postfix # <<>>)
    => calculate_token(postfix, stack).exc \in {NoError, ZeroDivisionError}

\* C6: a call of log or pow written with one argument is given the function's
\* one-argument form, and one written with two arguments the two-argument form
\* with the first argument on the left, also when the call is the right operand
\* of a binary operator
C6_ArityAsWritten ==
    \A before \in CallPrefixes, name \in CallNames, arguments \in CallArguments :
        LET call == IF Len(arguments) = 1
                    THEN PrefixFunc1(name, float(arguments[1]))
                    ELSE PrefixFunc2(name, float(arguments[1]), float(arguments[2]))
            whole == IF before = "" THEN call
                     ELSE BinaryFunc(ReferenceFunction[Ch(before, 2)],
                                     float(Ch(before, 1)), call.val)
        IN (/\ expression = CallInput(before, name, arguments)
            /\ pc = "done"
            /\ call.exc = NoError
            /\ whole.exc = NoError)
           => printed = Printed(whole.val)

\* the scan of the claim: a counter goes up on "(" and down on ")"
Opened(s, k) == Cardinality({i \in 1..k : Ch(s, i) = "("})
Closed(s, k) == Cardinality({i \in 1..k : Ch(s, i) = ")"})
CounterFails(s) ==
    \/ \E k \in 1..Len(s) : Opened(s, k) < Closed(s, k)
    \/ Opened(s, Len(s)) # Closed(s, Len(s))

\* C7: check_brackets raises UnbalancedBracketsError exactly when the counter of
\* open parentheses goes negative somewhere or is not zero at the end, and main
\* reports it exactly then (for an expression that check_whitespace lets pass)
C7_BracketsBalanced ==
    /\ (check_brackets(expression) = UnbalancedBracketsError) <=> CounterFails(expression)
    /\ (pc # "main" /\ check_whitespace(expression) = NoError)
          => ((printed # <<>> /\ printed[1] = ExceptionLine(UnbalancedBracketsError))
                 <=> CounterFails(expression))

C7_Witness ==
    /\ pc = "done"
    /\ printed = <<ExceptionLine(UnbalancedBracketsError)>>
    /\ Opened(expression, Len(expression)) > Closed(expression, Len(expression))
    /\ Closed(expression, Len(expression)) > 0

\* C8: for an expression that passed the validator, and for each side of a
\* comparison, a ")" that the converter reads finds a "(" on the operator stack,
\* and no "(" is ever moved to the output queue
C8_ParenthesesMatched ==
    /\ ~Contains(output_queue, Symbol("("))
    /\ (pc = "convert_loop" /\ input_queue # <<>> /\ Head(input_queue) = ")")
          => Contains(operator_stack, "(")

\* C9: after the unary pass a token + or - has become p or n exactly when it is
\* the first token or the token before it, as the pass left it, is a binary
\* operator, p, n or "("; every other token is unchanged; and so 3*-2 = -6,
\* -3-2 = -5, -(2+3) = -5
C9_UnaryDisambiguation ==
    /\ pc = "convert"
          => /\ Len(input_queue) = Len(RawTokens)
             /\ \A i \in 1..Len(RawTokens) :
                   LET unary == \/ i = 1
                                \/ input_queue[i - 1] \in DOMAIN operators \cup {"p", "n", "("}
                   IN input_queue[i] =
                         IF RawTokens[i] = "+" /\ unary THEN "p"
                         ELSE IF RawTokens[i] = "-" /\ unary THEN "n"
                         ELSE RawTokens[i]
    /\ (pc = "done" /\ expression = "3*-2") => printed = Printed(Value(-6))
    /\ (pc = "done" /\ expression = "-3-2") => printed = Printed(Value(-5))
    /\ (pc = "done" /\ expression = "-(2+3)") => printed = Printed(Value(-5))

\* what the converter keeps of a token: a number's or constant's value, the token
\* itself for an operator or a prefix function
Kept(token) ==
    isnumber(token) \/ token \in DOMAIN constants \cup DOMAIN operators \cup DOMAIN prefixes
Element(token) ==
    IF isnumber(token) THEN Number(float(token))
    ELSE IF token \in DOMAIN constants THEN Number(constants[token])
    ELSE Symbol(token)
RECURSIVE Elements(_)
Elements(tokens) ==
    IF tokens = <<>> THEN <<>>
    ELSE (IF Kept(Head(tokens)) THEN <<Element(Head(tokens))>> ELSE <<>>)
            \o Elements(Tail(tokens))
IsNumber(element) == element.sym = ""
IsNotParenthesis(element) == element.sym # "("

\* convert_infix_to_postfix has returned for expressions[side]
Converted == pc \in {"calculate", "return"}

\* C10: when convert_infix_to_postfix returns, the input queue is used up, the
\* operator stack is empty, and the output queue holds every number, constant,
\* operator and prefix function of the input exactly once, the numbers and
\* constants in their order of the input; and the operator stack never holds a
\* number or a constant
C10_ConverterKeepsTokens ==
    /\ \A i \in 1..Len(operator_stack) :
          ~isnumber(operator_stack[i]) /\ operator_stack[i] \notin DOMAIN constants
    /\ Converted
          => LET expected == Elements(SideTokens)
                 moved == SelectSeq(output_queue, IsNotParenthesis)
             IN /\ input_queue = <<>>
                /\ operator_stack = <<>>
                /\ Len(moved) = Len(expected)
                /\ \A e \in Range(expected) \cup Range(moved) :
                      Count(moved, e) = Count(expected, e)
                /\ SelectSeq(moved, IsNumber) = SelectSeq(expected, IsNumber)

C10_Witness ==
    /\ pc = "calculate"
    /\ postfix = output_queue
    /\ expression = "1+log(8,2)"
    /\ output_queue = <<Number(Value(1)), Number(Value(8)), Number(Value(2)),
                        Symbol("log"), Symbol("+")>>

====
